---- MODULE Spec2Model ----
(***************************************************************************)
(* Things -> Todoist converter (things_applescript_to_todoist.py).         *)
(* Python strings are TLA+ strings; "in", lower(), capitalize(), replace() *)
(* and the regular expressions of the recurrence converter are computed    *)
(* character by character.                                                 *)
(***************************************************************************)
EXTENDS Integers, Sequences, FiniteSets, TLC

(* ---------------------------------------------------------------------- *)
(* Python values                                                           *)
(* ---------------------------------------------------------------------- *)

\* Python's None, for the fields that hold either None or a string.
None == "<None>"

\* Truth value of an optional string: None and "" are false.
Truthy(x) == x # None /\ x # ""

\* s[i], 1-based.
CharAt(s, i) == SubSeq(s, i, i)

\* s.startswith(p)
StartsWith(s, p) == Len(s) >= Len(p) /\ SubSeq(s, 1, Len(p)) = p

\* p occurs in s at position i
OccursAt(s, p, i) == i + Len(p) - 1 <= Len(s) /\ SubSeq(s, i, i + Len(p) - 1) = p

\* Python's  p in s
Contains(s, p) == \E i \in 1..(Len(s) - Len(p) + 1) : OccursAt(s, p, i)

UpperChars == <<"A","B","C","D","E","F","G","H","I","J","K","L","M",
                "N","O","P","Q","R","S","T","U","V","W","X","Y","Z">>
LowerChars == <<"a","b","c","d","e","f","g","h","i","j","k","l","m",
                "n","o","p","q","r","s","t","u","v","w","x","y","z">>

LowerChar(c) ==
    IF \E k \in 1..26 : UpperChars[k] = c
    THEN LowerChars[CHOOSE k \in 1..26 : UpperChars[k] = c]
    ELSE c

UpperChar(c) ==
    IF \E k \in 1..26 : LowerChars[k] = c
    THEN UpperChars[CHOOSE k \in 1..26 : LowerChars[k] = c]
    ELSE c

RECURSIVE Lower(_)
\* str.lower()
Lower(s) == IF s = "" THEN "" ELSE LowerChar(CharAt(s, 1)) \o Lower(SubSeq(s, 2, Len(s)))

\* a converter that forgets to capitalize the weekday
CapitalizeNot(s) == s

\* str.capitalize(): first character upper-cased, the rest lower-cased
Capitalize(s) ==
    IF s = "" THEN "" ELSE UpperChar(CharAt(s, 1)) \o Lower(SubSeq(s, 2, Len(s)))

IsDigit(c) == c \in {"0","1","2","3","4","5","6","7","8","9"}

\* \s of the re module, restricted to the white space the inputs contain
IsSpace(c) == c \in {" ", "\t", "\n"}

RECURSIVE DigitRunEnd(_, _)
\* index just past the maximal run of digits of s that starts at i
DigitRunEnd(s, i) ==
    IF i <= Len(s) /\ IsDigit(CharAt(s, i)) THEN DigitRunEnd(s, i + 1) ELSE i

RECURSIVE SpaceRunEnd(_, _)
\* index just past the maximal run of white space of s that starts at i
SpaceRunEnd(s, i) ==
    IF i <= Len(s) /\ IsSpace(CharAt(s, i)) THEN SpaceRunEnd(s, i + 1) ELSE i

\* re.match(r'every\s+(\d+)\s+<unit>', s[i-1:]) : "" when there is no match
\* at i, group(1) otherwise.  \s+ and \d+ are greedy and their character
\* classes are disjoint from each other and from the first letter of the
\* unit, so the maximal runs are the only candidate match.
EveryNAt(s, unit, i) ==
    IF ~OccursAt(s, "every", i) THEN ""
    ELSE LET a == i + 5
             b == SpaceRunEnd(s, a)
             c == DigitRunEnd(s, b)
             d == SpaceRunEnd(s, c)
         IN  IF b > a /\ c > b /\ d > c /\ OccursAt(s, unit, d)
             THEN SubSeq(s, b, c - 1) ELSE ""

RECURSIVE EveryNFrom(_, _, _)
EveryNFrom(s, unit, i) ==
    IF i > Len(s) THEN ""
    ELSE IF EveryNAt(s, unit, i) # "" THEN EveryNAt(s, unit, i)
    ELSE EveryNFrom(s, unit, i + 1)

\* re.search(r'every\s+(\d+)\s+<unit>', s): group(1) of the leftmost match,
\* "" when there is none
SearchEveryN(s, unit) == EveryNFrom(s, unit, 1)

OrdinalSuffixes == <<"st", "nd", "rd", "th">>

\* re.match(r'on the (\d+)(st|nd|rd|th)', s[i-1:]): group(1) + group(2), or ""
OnTheAt(s, i) ==
    IF ~OccursAt(s, "on the ", i) THEN ""
    ELSE LET b == i + 7
             c == DigitRunEnd(s, b)
         IN  IF c > b /\ \E k \in 1..4 : OccursAt(s, OrdinalSuffixes[k], c)
             THEN SubSeq(s, b, c + 1) ELSE ""

RECURSIVE OnTheFrom(_, _)
OnTheFrom(s, i) ==
    IF i > Len(s) THEN ""
    ELSE IF OnTheAt(s, i) # "" THEN OnTheAt(s, i)
    ELSE OnTheFrom(s, i + 1)

\* re.search(r'on the (\d+)(st|nd|rd|th)', s): group(1) + group(2), or ""
SearchOnThe(s) == OnTheFrom(s, 1)

(* ---------------------------------------------------------------------- *)
(* convert_things_recurrence_to_todoist                                    *)
(* ---------------------------------------------------------------------- *)

\* outcome of a call: a returned value, or an exception raised to the caller
Return(v) == [raised |-> FALSE, value |-> v]
Raise(e) == [raised |-> TRUE, value |-> e]

weekdays == <<"monday", "tuesday", "wednesday", "thursday", "friday", "saturday", "sunday">>

\* for day in weekdays: if day in recurrence  -- the first such day, or ""
FirstWeekday(recurrence) ==
    IF \E k \in 1..7 : Contains(recurrence, weekdays[k])
    THEN weekdays[CHOOSE k \in 1..7 :
            /\ Contains(recurrence, weekdays[k])
            /\ \A j \in 1..(k - 1) : ~Contains(recurrence, weekdays[j])]
    ELSE ""

\* "import re" is a statement of the body of the "every ... days" branch:
\* it makes re a local name of the function, bound only once that branch
\* has been entered.
ReBound(recurrence) == Contains(recurrence, "every") /\ Contains(recurrence, "days")

\* a converter whose last resort is the empty phrase
FallbackEmpty(recurrence) ==
    IF Contains(recurrence, "day") THEN "every day"
    ELSE IF Contains(recurrence, "week") THEN "every week"
    ELSE IF Contains(recurrence, "month") THEN "every month"
    ELSE IF Contains(recurrence, "year") THEN "every year"
    ELSE ""

\* the simplified phrases and the default of the end of the function
Fallback(recurrence) ==
    IF Contains(recurrence, "day") THEN "every day"
    ELSE IF Contains(recurrence, "week") THEN "every week"
    ELSE IF Contains(recurrence, "month") THEN "every month"
    ELSE IF Contains(recurrence, "year") THEN "every year"
    ELSE "every day"

\* yearly patterns, then the fallback
Yearly(recurrence) ==
    IF Contains(recurrence, "every year") THEN Return("every year")
    ELSE IF Contains(recurrence, "every") /\ Contains(recurrence, "years")
    THEN IF ~ReBound(recurrence) THEN Raise("UnboundLocalError")
         ELSE IF SearchEveryN(recurrence, "years") # ""
         THEN Return("every " \o SearchEveryN(recurrence, "years") \o " years")
         ELSE Return(Fallback(recurrence))
    ELSE Return(Fallback(recurrence))

\* monthly patterns, then the yearly ones
Monthly(recurrence) ==
    IF Contains(recurrence, "every month")
    THEN IF ~ReBound(recurrence) THEN Raise("UnboundLocalError")
         ELSE IF SearchOnThe(recurrence) # ""
         THEN Return("every month on the " \o SearchOnThe(recurrence))
         ELSE Return("every month")
    ELSE IF Contains(recurrence, "every") /\ Contains(recurrence, "months")
    THEN IF ~ReBound(recurrence) THEN Raise("UnboundLocalError")
         ELSE IF SearchEveryN(recurrence, "months") # ""
         THEN LET interval == SearchEveryN(recurrence, "months")
              IN  IF SearchOnThe(recurrence) # ""
                  THEN Return("every " \o interval \o " months on the " \o SearchOnThe(recurrence))
                  ELSE Return("every " \o interval \o " months")
         ELSE Yearly(recurrence)
    ELSE Yearly(recurrence)

\* weekly patterns, then the monthly ones
Weekly(recurrence) ==
    IF Contains(recurrence, "every week")
    THEN IF FirstWeekday(recurrence) # ""
         THEN Return("every week on " \o Capitalize(FirstWeekday(recurrence)))
         ELSE Return("every week")
    ELSE IF Contains(recurrence, "every") /\ Contains(recurrence, "weeks")
    THEN IF ~ReBound(recurrence) THEN Raise("UnboundLocalError")
         ELSE IF SearchEveryN(recurrence, "weeks") # ""
         THEN LET interval == SearchEveryN(recurrence, "weeks")
              IN  IF FirstWeekday(recurrence) # ""
                  THEN Return("every " \o interval \o " weeks on "
                              \o Capitalize(FirstWeekday(recurrence)))
                  ELSE Return("every " \o interval \o " weeks")
         ELSE Monthly(recurrence)
    ELSE Monthly(recurrence)

\* daily patterns, then the weekly ones
Daily(recurrence) ==
    IF Contains(recurrence, "every day") THEN Return("every day")
    ELSE IF Contains(recurrence, "every weekday") THEN Return("every weekday")
    ELSE IF /\ Contains(recurrence, "every") /\ Contains(recurrence, "days")
            /\ SearchEveryN(recurrence, "days") # ""
    THEN Return("every " \o SearchEveryN(recurrence, "days") \o " days")
    ELSE Weekly(recurrence)

\* the guard of the function: "" for None and for the empty descriptor
EmptyGuard(recurrence_str) == ~Truthy(recurrence_str)

convert_things_recurrence_to_todoist(recurrence_str) ==
    IF EmptyGuard(recurrence_str) THEN Return("")
    ELSE Daily(Lower(recurrence_str))

(* ---------------------------------------------------------------------- *)
(* convert_to_todoist_format                                               *)
(* ---------------------------------------------------------------------- *)

\* the completion mark U+2713 (CHECK MARK), written as one ASCII character
Marker == "^"

RECURSIVE Replace(_, _, _)
\* str.replace(old, new), old non-empty
Replace(s, old, new) ==
    IF s = "" THEN ""
    ELSE IF StartsWith(s, old) THEN new \o Replace(SubSeq(s, Len(old) + 1, Len(s)), old, new)
    ELSE CharAt(s, 1) \o Replace(SubSeq(s, 2, Len(s)), old, new)

AllDigits(s) == \A i \in 1..Len(s) : IsDigit(CharAt(s, i))

\* value of a string of one or two digits
DigitVal(c) == CHOOSE n \in 0..9 : <<"0","1","2","3","4","5","6","7","8","9">>[n + 1] = c
TwoDigitVal(s) == 10 * DigitVal(CharAt(s, 1)) + DigitVal(CharAt(s, 2))

\* "YYYY-MM-DD" with a month of 1..12 and a day of 1..31
IsIsoDate(s) ==
    /\ Len(s) = 10
    /\ AllDigits(SubSeq(s, 1, 4)) /\ CharAt(s, 5) = "-"
    /\ AllDigits(SubSeq(s, 6, 7)) /\ CharAt(s, 8) = "-"
    /\ AllDigits(SubSeq(s, 9, 10))
    /\ TwoDigitVal(SubSeq(s, 6, 7)) \in 1..12
    /\ TwoDigitVal(SubSeq(s, 9, 10)) \in 1..31

\* "HH:MM"
IsHourMinute(s) ==
    /\ Len(s) = 5
    /\ AllDigits(SubSeq(s, 1, 2)) /\ CharAt(s, 3) = ":" /\ AllDigits(SubSeq(s, 4, 5))
    /\ TwoDigitVal(SubSeq(s, 1, 2)) \in 0..23
    /\ TwoDigitVal(SubSeq(s, 4, 5)) \in 0..59

\* "HH:MM:SS", optionally followed by a UTC offset "+HH:MM" or "-HH:MM"
IsIsoTime(s) ==
    /\ Len(s) \in {8, 14}
    /\ IsHourMinute(SubSeq(s, 1, 5))
    /\ CharAt(s, 6) = ":" /\ AllDigits(SubSeq(s, 7, 8))
    /\ TwoDigitVal(SubSeq(s, 7, 8)) \in 0..59
    /\ Len(s) = 14 => /\ CharAt(s, 9) \in {"+", "-"}
                      /\ IsHourMinute(SubSeq(s, 10, 14))

\* datetime.fromisoformat(s) succeeds: a date, one separator character and a
\* time (a string that holds a "T" is never a bare date)
IsIsoformat(s) ==
    /\ Len(s) > 11
    /\ IsIsoDate(SubSeq(s, 1, 10))
    /\ IsIsoTime(SubSeq(s, 12, Len(s)))

\* datetime.fromisoformat(s.replace('Z', '+00:00')).strftime('%Y-%m-%d'):
\* the date part, or ValueError
ParseIsoDate(dueDate) ==
    LET s == Replace(dueDate, "Z", "+00:00")
    IN  IF IsIsoformat(s) THEN Return(SubSeq(s, 1, 10)) ELSE Raise("ValueError")

\* the try block of a to-do that has a due date: any exception is caught
\* and leaves due_date as assigned so far
DueDateTry(todo) ==
    LET base == IF Contains(todo.dueDate, "T") THEN ParseIsoDate(todo.dueDate)
                ELSE Return(todo.dueDate)
    IN  IF base.raised THEN Return("")
        ELSE IF Truthy(todo.recurring)
        THEN LET recurrence == convert_things_recurrence_to_todoist(todo.recurring)
             IN  IF recurrence.raised THEN Return(base.value)
                 ELSE IF recurrence.value # ""
                 THEN Return(base.value \o " " \o recurrence.value)
                 ELSE Return(base.value)
        ELSE Return(base.value)

\* the elif branch: recurring but no due date, outside every try block
RecurringOnly(todo) ==
    LET recurrence == convert_things_recurrence_to_todoist(todo.recurring)
    IN  IF recurrence.raised THEN recurrence
        ELSE IF recurrence.value # "" THEN Return(recurrence.value)
        ELSE Return("")

\* the DATE of a to-do, or the exception its computation raises
DateField(todo) ==
    IF Truthy(todo.dueDate) THEN DueDateTry(todo)
    ELSE IF Truthy(todo.recurring) THEN RecurringOnly(todo)
    ELSE Return("")

\* a test of the tag as it is written, not lower-cased
IsPriorityTagCased(tag) ==
    \/ Contains(tag, "high")
    \/ Contains(tag, "urgent")
    \/ Contains(tag, "priority")

\* a tag escalates the priority
IsPriorityTag(tag) ==
    \/ Contains(Lower(tag), "high")
    \/ Contains(Lower(tag), "urgent")
    \/ Contains(Lower(tag), "priority")

Priority(todo) ==
    IF \E t \in 1..Len(todo.tags) : IsPriorityTag(todo.tags[t]) THEN 4 ELSE 1

TodoIndent(todo) ==
    IF Truthy(todo.project) THEN 2
    ELSE IF Truthy(todo.area) THEN 2
    ELSE 1

RECURSIVE TagsStr(_)
\* ' '.join([f"#{tag.replace(' ', '_')}" for tag in tags]), tags non-empty
TagsStr(tags) ==
    IF Len(tags) = 1 THEN "#" \o Replace(tags[1], " ", "_")
    ELSE "#" \o Replace(tags[1], " ", "_") \o " " \o TagsStr(Tail(tags))

\* title, notes and tags, before the completion mark
Assembled(todo) ==
    LET c1 == IF Truthy(todo.notes) THEN todo.title \o "\n" \o todo.notes ELSE todo.title
    IN  IF todo.tags # <<>> THEN c1 \o " " \o TagsStr(todo.tags) ELSE c1

\* a transformer that marks nothing
MarkNever(status, content) == content

\* the completion mark of a project or a to-do
Mark(status, content) ==
    IF status = "completed" THEN Marker \o " " \o content ELSE content

TodoContent(todo) == Mark(todo.status, Assembled(todo))

TodoRow(todo, due_date) ==
    [TYPE |-> "task", CONTENT |-> TodoContent(todo), PRIORITY |-> Priority(todo),
     INDENT |-> TodoIndent(todo), AUTHOR |-> "", RESPONSIBLE |-> "",
     DATE |-> due_date, DATE_LANG |-> "en"]

ChecklistRow(item, indent) ==
    [TYPE |-> "task", CONTENT |-> Mark(item.status, item.title), PRIORITY |-> 1,
     INDENT |-> indent + 1, AUTHOR |-> "", RESPONSIBLE |-> "",
     DATE |-> "", DATE_LANG |-> "en"]

ChecklistRows(todo) ==
    [c \in 1..Len(todo.checklist) |-> ChecklistRow(todo.checklist[c], TodoIndent(todo))]

AreaRow(area) ==
    [TYPE |-> "project", CONTENT |-> area.name, PRIORITY |-> 1, INDENT |-> 1,
     AUTHOR |-> "", RESPONSIBLE |-> "", DATE |-> "", DATE_LANG |-> "en",
     things_id |-> area.id]

\* indent = 2 if project['area'] and areas else 1
ProjectIndent(project, areaList) ==
    IF Truthy(project.area) /\ areaList # <<>> THEN 2 ELSE 1

ProjectRow(project, areaList) ==
    [TYPE |-> "project", CONTENT |-> Mark(project.status, project.name), PRIORITY |-> 1,
     INDENT |-> ProjectIndent(project, areaList), AUTHOR |-> "", RESPONSIBLE |-> "",
     DATE |-> "", DATE_LANG |-> "en", things_id |-> project.id]

\* a transformer that appends the checklist rows before the row of their to-do
TodoRowsItemsFirst(todo, due_date) == ChecklistRows(todo) \o <<TodoRow(todo, due_date)>>

\* the row of a to-do, then the rows of its checklist items
TodoRows(todo, due_date) == <<TodoRow(todo, due_date)>> \o ChecklistRows(todo)

\* item.pop('things_id')
RemoveTemp(item) ==
    IF "things_id" \in DOMAIN item
    THEN [f \in DOMAIN item \ {"things_id"} |-> item[f]]
    ELSE item

(* ---------------------------------------------------------------------- *)
(* State                                                                   *)
(* ---------------------------------------------------------------------- *)

VARIABLES
    pc,              \* position of the run
    args,            \* the parsed command line
    things,          \* the source application: its data and the failing queries
    areas,           \* the three record lists of main, the transformer's arguments
    projects,
    todos,
    todoist_items,   \* the row list under construction
    origin,          \* for each row, the record it was made from (bookkeeping)
    k,               \* index of the to-do the transformer is at
    result,          \* outcome of the last call of the function under study
    run,             \* number of the current call of the transformer
    first,           \* outcome of the first call of the transformer
    given,           \* the arguments as they were when the transformer was first called
    called,          \* the extractors main has called
    exit_code,       \* exit status of the process, None while it runs
    csv,             \* the rows written to the output file, None before
    recurrence_str   \* argument of convert_things_recurrence_to_todoist

vars == <<pc, args, things, areas, projects, todos, todoist_items, origin, k, result,
          run, first, given, called, exit_code, csv, recurrence_str>>

(* ---------------------------------------------------------------------- *)
(* Bounds and input sets                                                   *)
(* ---------------------------------------------------------------------- *)

MaxTokens == 3
MaxAreas == 2
MaxProjects == 2
MaxTodos == 2
MaxChecklist == 2
MaxTags == 2

\* sequences over S of length at most n
SeqsUpTo(S, n) == UNION {[1..m -> S] : m \in 0..n}

RECURSIVE Join(_)
\* ' '.join(tokens)
Join(tokens) ==
    IF tokens = <<>> THEN ""
    ELSE IF Len(tokens) = 1 THEN tokens[1]
    ELSE tokens[1] \o " " \o Join(Tail(tokens))

\* words of the recurrence descriptors
Tokens == {"every", "Every", "2", "10", "day", "days", "week", "weeks", "weekday",
           "month", "months", "year", "on Monday", "FRIDAY", "on the 3rd", "foo"}

\* descriptors in the phrasing of the source application
Phrases == {"every 2 weeks on Monday", "every week on friday and monday", "every 2 weeks, 3 days after", "every 3 years",
            "every  12 months on the 21st", "every 2 days every week on sunday"}

Descriptors == {Join(t) : t \in SeqsUpTo(Tokens, MaxTokens)} \cup Phrases \cup {None}

NoArgs == [skip_completed |-> FALSE, areas_only |-> FALSE,
           projects_only |-> FALSE, todos_only |-> FALSE]

NoThings == [running |-> FALSE, areas |-> <<>>, projects |-> <<>>, todos |-> <<>>,
             faults |-> {}]

(* ---------------------------------------------------------------------- *)
(* The recurrence converter on its own                                     *)
(* ---------------------------------------------------------------------- *)

Idle ==
    /\ args = NoArgs /\ things = NoThings
    /\ areas = <<>> /\ projects = <<>> /\ todos = <<>>
    /\ todoist_items = <<>> /\ origin = <<>> /\ k = 1
    /\ result = None /\ run = 1 /\ first = None /\ given = None
    /\ called = {} /\ exit_code = None /\ csv = None

InitRec ==
    /\ Idle
    /\ pc = "rec_call"
    /\ recurrence_str \in Descriptors

CallRecurrence ==
    /\ pc = "rec_call"
    /\ result' = convert_things_recurrence_to_todoist(recurrence_str)
    /\ pc' = "rec_done"
    /\ UNCHANGED <<args, things, areas, projects, todos, todoist_items, origin, k,
                   run, first, given, called, exit_code, csv, recurrence_str>>

NextRec == CallRecurrence

SpecRec == InitRec /\ [][NextRec]_vars

(* ---------------------------------------------------------------------- *)
(* The transformer: convert_to_todoist_format(areas, projects, todos)      *)
(* ---------------------------------------------------------------------- *)

\* a row list that outlives the call (a module-level list, a mutable default)
NewItemsKept == todoist_items

\* todoist_items = []
NewItems == <<>>

\* for area in areas: todoist_items.append({...})
AreaRows(areaList) == [a \in 1..Len(areaList) |-> AreaRow(areaList[a])]

\* for project in projects: todoist_items.append({...})
ProjectRows(projectList, areaList) ==
    [p \in 1..Len(projectList) |-> ProjectRow(projectList[p], areaList)]

\* which record each row was made from
AreaOrigins(areaList) == [a \in 1..Len(areaList) |-> [kind |-> "area", idx |-> a]]
ProjectOrigins(projectList) == [p \in 1..Len(projectList) |-> [kind |-> "project", idx |-> p]]
TodoOrigins(todo, t) ==
    <<[kind |-> "todo", idx |-> t]>>
        \o [c \in 1..Len(todo.checklist) |-> [kind |-> "item", idx |-> t]]

ConvBegin ==
    /\ pc = "conv_begin"
    /\ todoist_items' = NewItems
    /\ origin' = <<>>
    /\ k' = 1
    /\ pc' = "conv_areas"
    /\ UNCHANGED <<args, things, areas, projects, todos, result, run, first, given,
                   called, exit_code, csv, recurrence_str>>

ConvAreas ==
    /\ pc = "conv_areas"
    /\ todoist_items' = todoist_items \o AreaRows(areas)
    /\ origin' = origin \o AreaOrigins(areas)
    /\ pc' = "conv_projects"
    /\ UNCHANGED <<args, things, areas, projects, todos, k, result, run, first, given,
                   called, exit_code, csv, recurrence_str>>

ConvProjects ==
    /\ pc = "conv_projects"
    /\ todoist_items' = todoist_items \o ProjectRows(projects, areas)
    /\ origin' = origin \o ProjectOrigins(projects)
    /\ pc' = "conv_todos"
    /\ UNCHANGED <<args, things, areas, projects, todos, k, result, run, first, given,
                   called, exit_code, csv, recurrence_str>>

\* one iteration of "for todo in todos": the row of the to-do and the rows of
\* its checklist, or the exception that leaves the function
ConvTodo ==
    /\ pc = "conv_todos"
    /\ k <= Len(todos)
    /\ LET todo == todos[k]
           due_date == DateField(todo)
       IN  IF due_date.raised
           THEN /\ result' = due_date
                /\ pc' = "raised"
                /\ UNCHANGED <<todoist_items, origin, k>>
           ELSE /\ todoist_items' = todoist_items \o TodoRows(todo, due_date.value)
                /\ origin' = origin \o TodoOrigins(todo, k)
                /\ k' = k + 1
                /\ UNCHANGED <<pc, result>>
    /\ UNCHANGED <<args, things, areas, projects, todos, run, first, given,
                   called, exit_code, csv, recurrence_str>>

\* the temporary fields are removed and the list is returned
ConvReturn ==
    /\ pc = "conv_todos"
    /\ k > Len(todos)
    /\ todoist_items' = [r \in 1..Len(todoist_items) |-> RemoveTemp(todoist_items[r])]
    /\ result' = Return(todoist_items')
    /\ pc' = "returned"
    /\ UNCHANGED <<args, things, areas, projects, todos, origin, k, run, first, given,
                   called, exit_code, csv, recurrence_str>>

\* the caller calls the transformer a second time with the same lists
CallAgain ==
    /\ pc \in {"returned", "raised"}
    /\ run = 1
    /\ first' = result
    /\ run' = 2
    /\ pc' = "conv_begin"
    /\ UNCHANGED <<args, things, areas, projects, todos, todoist_items, origin, k,
                   result, given, called, exit_code, csv, recurrence_str>>

(* inputs of the transformer *)

Area(id, name) == [id |-> id, name |-> name]

Project(id, name, status, area) ==
    [id |-> id, name |-> name, notes |-> "", status |-> status, area |-> area]

BaseTodo ==
    [id |-> "T1", title |-> "Buy milk", notes |-> "", status |-> "open",
     dueDate |-> None, project |-> None, area |-> None, tags |-> <<>>,
     recurring |-> None, checklist |-> <<>>]

Item(title, status) == [title |-> title, status |-> status]

AreaPool == {Area("A1", "Home"), Area("A2", "Work")}

\* area lists without repeated identifiers
AreaLists ==
    {l \in SeqsUpTo(AreaPool, MaxAreas) : \A i, j \in 1..Len(l) : l[i] = l[j] => i = j}

\* projects that differ in their owning area
StructProjects == {Project("P1", "Chores", "active", a) : a \in {None, "A1", "A2"}}

\* to-dos that differ in their container and their checklist
\* the c-th item of a checklist
ChecklistItem(c) ==
    Item(<<"2%", "eggs", "tea">>[(c % 3) + 1], IF c % 2 = 0 THEN "completed" ELSE "open")

Checklists == {[c \in 1..n |-> ChecklistItem(c)] : n \in 0..MaxChecklist}

Containers == {<<None, None>>, <<"P1", None>>, <<"P2", None>>, <<None, "A2">>}

StructTodos ==
    {[BaseTodo EXCEPT !.project = c[1], !.area = c[2], !.checklist = l] :
        c \in Containers, l \in Checklists}

\* to-dos that differ in their due date and their recurrence
DueDates == {None, "2024-03-01", "2024-03-01T10:00:00Z", "2024-03-01T23:30:00-05:00",
             "Tuesday, March 5, 2024 at 12:00:00 AM"}

Recurrences == {None, "every 2 weeks on Monday", "every week", "every 3 days", "foo"}

DateTodos ==
    {[BaseTodo EXCEPT !.dueDate = d, !.recurring = r] : d \in DueDates, r \in Recurrences}

\* projects and to-dos that differ in their texts and their status
ContentProjects ==
    {Project("P1", n, s, None) : n \in {"Chores", Marker \o " Old"}, s \in {"active", "completed"}}

\* notes and tags of the to-dos
NotesAndTags == {<<"", <<>>>>, <<Marker \o " 2%", <<>>>>, <<"", <<"home errands", "High">>>>}

ContentTodos ==
    {[BaseTodo EXCEPT !.title = t, !.notes = n[1], !.tags = n[2], !.status = s] :
        t \in {"Buy milk", Marker \o " paid", ""},
        n \in NotesAndTags,
        s \in {"open", "active", "completed"}}

\* to-do lists that refer to containers
SomeTodoLists ==
    {<<>>,
     <<[BaseTodo EXCEPT !.project = "P1", !.checklist = <<ChecklistItem(1)>>]>>,
     <<[BaseTodo EXCEPT !.area = "A2"], [BaseTodo EXCEPT !.id = "T2", !.project = "P2"]>>}

\* tags that hold one of the three words, in either case, and tags that do not
TagPool == {"home errands", "High", "URGENT!", "low-priority", "hi gh", "Prior", "top PRIORITY"}

\* two to-dos: one with each tag list, one with a checklist and a plain tag
TagTodoLists ==
    {<<[BaseTodo EXCEPT !.tags = g, !.project = "P1"],
       [BaseTodo EXCEPT !.id = "T2", !.tags = <<"home errands">>,
                        !.checklist = <<ChecklistItem(1)>>]>> :
        g \in SeqsUpTo(TagPool, MaxTags)}

ConvInputs ==
    ({<<a, p, t>> : a \in AreaLists, p \in SeqsUpTo(StructProjects, MaxProjects),
                    t \in SomeTodoLists})
    \cup {<<a, p, t>> : a \in {<<>>, <<Area("A2", "Work")>>},
                        p \in {<<>>, <<Project("P1", "Chores", "active", None)>>},
                        t \in SeqsUpTo(StructTodos, MaxTodos)}
    \cup {<<a, p, t>> : a \in {<<Area("A1", "Home")>>}, p \in {<<>>},
                        t \in SeqsUpTo(DateTodos, MaxTodos)}
    \cup {<<a, p, t>> : a \in {<<>>}, p \in SeqsUpTo(ContentProjects, MaxProjects),
                        t \in {<<>>}}
    \cup {<<a, p, t>> : a \in {<<>>}, p \in {<<>>}, t \in SeqsUpTo(ContentTodos, MaxTodos)}
    \cup {<<a, p, t>> : a \in {<<Area("A1", "Home")>>},
                        p \in {<<Project("P1", "Chores", "active", "A1")>>},
                        t \in TagTodoLists}

InitConv ==
    /\ pc = "conv_begin"
    /\ args = NoArgs /\ things = NoThings
    /\ \E in \in ConvInputs :
        /\ areas = in[1] /\ projects = in[2] /\ todos = in[3]
        /\ given = in
    /\ todoist_items = <<>> /\ origin = <<>> /\ k = 1
    /\ result = None /\ run = 1 /\ first = None
    /\ called = {} /\ exit_code = None /\ csv = None
    /\ recurrence_str = None

NextConv == ConvBegin \/ ConvAreas \/ ConvProjects \/ ConvTodo \/ ConvReturn \/ CallAgain

SpecConv == InitConv /\ [][NextConv]_vars

(* ---------------------------------------------------------------------- *)
(* The extractor.  A query of the scripting bridge either fails             *)
(* (run_applescript returns None) or answers in the form its caller parses. *)
(* ---------------------------------------------------------------------- *)

\* run_applescript(script) returns None: the query is one of the failing ones
Fails(target, query) == <<target, query>> \in things.faults

\* get_areas(): [] when the script fails or its output is not JSON
get_areas ==
    IF Fails("areas", "list") \/ Fails("areas", "json") THEN <<>> ELSE things.areas

\* the record get_projects builds for one project identifier
ProjectData(p) ==
    [id |-> p.id,
     name |-> IF Fails(p.id, "name") THEN "" ELSE p.name,
     notes |-> IF Fails(p.id, "notes") THEN "" ELSE p.notes,
     status |-> IF Fails(p.id, "status") THEN "active" ELSE p.status,
     area |-> IF Fails(p.id, "area") THEN None ELSE p.area]

\* get_projects(): [] when the identifiers cannot be listed
get_projects ==
    IF Fails("projects", "ids") \/ things.projects = <<>> THEN <<>>
    ELSE [p \in 1..Len(things.projects) |-> ProjectData(things.projects[p])]

RECURSIVE Select(_, _, _)
\* the to-dos of list l whose field f is v, in order
Select(l, f, v) ==
    IF l = <<>> THEN <<>>
    ELSE IF Head(l)[f] = v THEN <<Head(l)>> \o Select(Tail(l), f, v)
    ELSE Select(Tail(l), f, v)

RECURSIVE TodosOf(_, _)
\* repeat with theContainer in containers: the to-dos of each, in order
TodosOf(f, containers) ==
    IF containers = <<>> THEN <<>>
    ELSE Select(things.todos, f, Head(containers).id) \o TodosOf(f, Tail(containers))

\* the inbox: the to-dos of no project and no area
InboxTodos == Select(Select(things.todos, "project", None), "area", None)

\* todo_ids: inbox, then every project's to-dos, then every area's to-dos
TodoIds ==
    (IF Fails("todos", "inbox") THEN <<>> ELSE InboxTodos)
    \o (IF Fails("todos", "projects") THEN <<>> ELSE TodosOf("project", things.projects))
    \o (IF Fails("todos", "areas") THEN <<>> ELSE TodosOf("area", things.areas))

RECURSIVE LStrip(_)
LStrip(s) == IF s # "" /\ IsSpace(CharAt(s, 1)) THEN LStrip(SubSeq(s, 2, Len(s))) ELSE s

RECURSIVE RStrip(_)
RStrip(s) ==
    IF s # "" /\ IsSpace(CharAt(s, Len(s))) THEN RStrip(SubSeq(s, 1, Len(s) - 1)) ELSE s

\* str.strip()
Strip(s) == RStrip(LStrip(s))

\* s.find(sep) + 1, sep in s
FirstIndex(s, sep) ==
    CHOOSE i \in 1..Len(s) :
        OccursAt(s, sep, i) /\ \A j \in 1..(i - 1) : ~OccursAt(s, sep, j)

RECURSIVE Split(_, _)
\* s.split(sep)
Split(s, sep) ==
    IF ~Contains(s, sep) THEN <<s>>
    ELSE LET i == FirstIndex(s, sep)
         IN  <<SubSeq(s, 1, i - 1)>> \o Split(SubSeq(s, i + Len(sep), Len(s)), sep)

\* s.split(sep, 1)
SplitOnce(s, sep) ==
    IF ~Contains(s, sep) THEN <<s>>
    ELSE LET i == FirstIndex(s, sep)
         IN  <<SubSeq(s, 1, i - 1), SubSeq(s, i + Len(sep), Len(s))>>

RECURSIVE JoinWith(_, _)
\* the bridge prints the elements of a list separated by sep
JoinWith(l, sep) ==
    IF l = <<>> THEN ""
    ELSE IF Len(l) = 1 THEN l[1]
    ELSE l[1] \o sep \o JoinWith(Tail(l), sep)

\* what the bridge prints for a value it cannot give
MalformedText == "missing value"

\* run_applescript(script) for a field query of a to-do: None when the query
\* fails, a text without the expected form when its answer is malformed, the
\* text of the answer otherwise
Response(id, query, text) ==
    IF Fails(id, query) THEN None
    ELSE IF Fails(id, query \o "_malformed") THEN MalformedText
    ELSE text

\* the answers of the five field queries, in the form get_to_dos parses
BasicText(t) == JoinWith(<<t.title, t.notes, t.status>>, ", ")
OptionalText(v) == IF v = None THEN "null" ELSE v
TagsText(t) == JoinWith(t.tags, ", ")
ChecklistText(t) ==
    JoinWith([c \in 1..Len(t.checklist) |->
                "{" \o t.checklist[c].title \o ", " \o t.checklist[c].status \o "}"], ", ")

\* a mapping of the answer that keeps the "null" sentinel
NullKept(r) == r

\* None if result == "null" else result
NullToNone(r) == IF r = "null" THEN None ELSE r

\* tags: the stripped parts of the answer, [] when there is no answer
ParseTags(tags_result) ==
    IF Truthy(tags_result)
    THEN LET parts == Split(Strip(tags_result), ", ")
         IN  [g \in 1..Len(parts) |-> Strip(parts[g])]
    ELSE <<>>

RECURSIVE ParseItems(_)
\* for item in items: the items that hold a comma, braces removed
ParseItems(items) ==
    IF items = <<>> THEN <<>>
    ELSE LET item == Replace(Replace(Head(items), "{", ""), "}", "")
         IN  IF Contains(item, ",")
             THEN <<[title |-> Strip(SplitOnce(item, ",")[1]),
                     status |-> Strip(SplitOnce(item, ",")[2])]>> \o ParseItems(Tail(items))
             ELSE ParseItems(Tail(items))

\* checklist: [] unless the answer holds a brace
ParseChecklist(checklist_result) ==
    IF Truthy(checklist_result) /\ Contains(checklist_result, "{")
    THEN ParseItems(Split(Strip(checklist_result), "}, {"))
    ELSE <<>>

\* basic_parts, or <<>> when there is no answer to split
BasicParts(t) ==
    LET basic_result == Response(t.id, "basic", BasicText(t))
    IN  IF Truthy(basic_result) THEN Split(Strip(basic_result), ", ") ELSE <<>>

\* the record get_to_dos builds for one identifier whose basic query answers
TodoData(t) ==
    [id |-> t.id,
     title |-> Strip(BasicParts(t)[1]),
     notes |-> Strip(BasicParts(t)[2]),
     status |-> Strip(BasicParts(t)[3]),
     dueDate |-> NullToNone(Response(t.id, "due", OptionalText(t.dueDate))),
     project |-> t.project, area |-> t.area,
     tags |-> ParseTags(Response(t.id, "tags", TagsText(t))),
     recurring |-> NullToNone(Response(t.id, "recurring", OptionalText(t.recurring))),
     checklist |-> ParseChecklist(Response(t.id, "checklist", ChecklistText(t)))]

RECURSIVE FetchTodos(_)
\* for todo_id, project_id, area_id in todo_ids: skip it when the basic query
\* gives no answer or fewer than three parts
FetchTodos(ids) ==
    IF ids = <<>> THEN <<>>
    ELSE IF Len(BasicParts(Head(ids))) < 3 THEN FetchTodos(Tail(ids))
    ELSE <<TodoData(Head(ids))>> \o FetchTodos(Tail(ids))

get_to_dos == FetchTodos(TodoIds)

(* ---------------------------------------------------------------------- *)
(* main                                                                    *)
(* ---------------------------------------------------------------------- *)

AnyOnly == args.areas_only \/ args.projects_only \/ args.todos_only

\* a main that takes the flag alone, also when no "only" flag is given
include_areas_flag == args.areas_only

include_areas == IF AnyOnly THEN args.areas_only ELSE TRUE
include_projects == IF AnyOnly THEN args.projects_only ELSE TRUE
include_todos == IF AnyOnly THEN args.todos_only ELSE TRUE

RECURSIVE NotCompleted(_)
\* [x for x in l if x['status'] != 'completed']
NotCompleted(l) ==
    IF l = <<>> THEN <<>>
    ELSE IF Head(l).status # "completed" THEN <<Head(l)>> \o NotCompleted(Tail(l))
    ELSE NotCompleted(Tail(l))

\* the source application is not running: sys.exit(1)
CheckRunning ==
    /\ pc = "main"
    /\ IF things.running
       THEN pc' = "extract_areas" /\ UNCHANGED exit_code
       ELSE pc' = "exit" /\ exit_code' = 1
    /\ UNCHANGED <<args, things, areas, projects, todos, todoist_items, origin, k,
                   result, run, first, given, called, csv, recurrence_str>>

ExtractAreas ==
    /\ pc = "extract_areas"
    /\ IF include_areas
       THEN areas' = get_areas /\ called' = called \cup {"areas"}
       ELSE UNCHANGED <<areas, called>>
    /\ pc' = "extract_projects"
    /\ UNCHANGED <<args, things, projects, todos, todoist_items, origin, k,
                   result, run, first, given, exit_code, csv, recurrence_str>>

ExtractProjects ==
    /\ pc = "extract_projects"
    /\ IF include_projects
       THEN projects' = get_projects /\ called' = called \cup {"projects"}
       ELSE UNCHANGED <<projects, called>>
    /\ pc' = "extract_todos"
    /\ UNCHANGED <<args, things, areas, todos, todoist_items, origin, k,
                   result, run, first, given, exit_code, csv, recurrence_str>>

ExtractTodos ==
    /\ pc = "extract_todos"
    /\ IF include_todos
       THEN todos' = get_to_dos /\ called' = called \cup {"todos"}
       ELSE UNCHANGED <<todos, called>>
    /\ pc' = "filter"
    /\ UNCHANGED <<args, things, areas, projects, todoist_items, origin, k,
                   result, run, first, given, exit_code, csv, recurrence_str>>

\* --skip-completed, then the call of the transformer
FilterCompleted ==
    /\ pc = "filter"
    /\ IF args.skip_completed
       THEN projects' = NotCompleted(projects) /\ todos' = NotCompleted(todos)
       ELSE UNCHANGED <<projects, todos>>
    /\ given' = <<areas, projects', todos'>>
    /\ pc' = "conv_begin"
    /\ UNCHANGED <<args, things, areas, todoist_items, origin, k,
                   result, run, first, called, exit_code, csv, recurrence_str>>

\* create_todoist_csv(todoist_items, output_csv), then the end of main
WriteCsv ==
    /\ pc = "returned"
    /\ csv' = result.value
    /\ exit_code' = 0
    /\ pc' = "exit"
    /\ UNCHANGED <<args, things, areas, projects, todos, todoist_items, origin, k,
                   result, run, first, given, called, recurrence_str>>

\* an exception that leaves the transformer leaves main: traceback, status 1
Uncaught ==
    /\ pc = "raised"
    /\ exit_code' = 1
    /\ pc' = "exit"
    /\ UNCHANGED <<args, things, areas, projects, todos, todoist_items, origin, k,
                   result, run, first, given, called, csv, recurrence_str>>

(* the source application *)

MaxFaults == 1

RECURSIVE SetsUpTo(_, _)
\* subsets of S of at most n elements
SetsUpTo(S, n) ==
    IF n = 0 THEN {{}}
    ELSE LET prev == SetsUpTo(S, n - 1)
         IN  prev \cup {q \cup {x} : q \in prev, x \in S}

RECURSIVE SubSeqs(_, _)
\* subsequences of l of at most n elements
SubSeqs(l, n) ==
    IF l = <<>> \/ n = 0 THEN {<<>>}
    ELSE SubSeqs(Tail(l), n) \cup {<<Head(l)>> \o r : r \in SubSeqs(Tail(l), n - 1)}

ThingsAreas == <<Area("A1", "Home")>>

ThingsProjectLists ==
    {<<>>, <<Project("P1", "Chores", "active", "A1")>>,
     <<Project("P1", "Chores", "completed", "A1")>>,
     <<Project("P1", "Chores", "active", None)>>}

ThingsTodos ==
    <<[BaseTodo EXCEPT !.id = "T1", !.tags = <<"urgent">>, !.dueDate = "2024-03-01",
                       !.status = "completed"],
      [BaseTodo EXCEPT !.id = "T2", !.title = "Sweep", !.project = "P1"],
      [BaseTodo EXCEPT !.id = "T3", !.title = "Bins", !.area = "A1",
                       !.recurring = "every 2 weeks on Monday",
                       !.checklist = <<Item("green", "completed")>>]>>

\* the to-do lists of a source application that holds the projects pl
ThingsTodoLists(pl) ==
    {l \in SubSeqs(ThingsTodos, MaxTodos) :
        \A t \in 1..Len(l) : l[t].project = None \/ pl # <<>>}

Queries ==
    {<<"areas", "list">>, <<"areas", "json">>, <<"projects", "ids">>}
    \cup ({"P1"} \X {"name", "notes", "status", "area"})
    \cup ({"todos"} \X {"inbox", "projects", "areas"})
    \cup ({"T1", "T2", "T3"} \X {"basic", "due", "recurring", "tags", "checklist"})
    \cup ({"T1", "T2", "T3"} \X {"basic_malformed", "due_malformed", "recurring_malformed",
                                  "tags_malformed", "checklist_malformed"})

FaultSets == SetsUpTo(Queries, MaxFaults) \cup {{"P1"} \X {"name", "notes", "status", "area"}}

ThingsPool ==
    {[running |-> TRUE, areas |-> ThingsAreas, projects |-> pl, todos |-> tl, faults |-> f] :
        pl \in ThingsProjectLists, tl \in SubSeqs(ThingsTodos, MaxTodos), f \in FaultSets}

ArgsPool ==
    [skip_completed : BOOLEAN, areas_only : BOOLEAN,
     projects_only : BOOLEAN, todos_only : BOOLEAN]

Init ==
    /\ pc = "main"
    /\ args \in ArgsPool
    /\ things \in {th \in ThingsPool : th.todos \in ThingsTodoLists(th.projects)}
                    \cup {NoThings}
    /\ areas = <<>> /\ projects = <<>> /\ todos = <<>>
    /\ todoist_items = <<>> /\ origin = <<>> /\ k = 1
    /\ result = None /\ run = 1 /\ first = None /\ given = None
    /\ called = {} /\ exit_code = None /\ csv = None
    /\ recurrence_str = None

Next ==
    \/ CheckRunning \/ ExtractAreas \/ ExtractProjects \/ ExtractTodos \/ FilterCompleted
    \/ ConvBegin \/ ConvAreas \/ ConvProjects \/ ConvTodo \/ ConvReturn
    \/ WriteCsv \/ Uncaught

Spec == Init /\ [][Next]_vars

(* ---------------------------------------------------------------------- *)
(* Properties                                                              *)
(* ---------------------------------------------------------------------- *)

\* the transformer has returned its row list
Returned == pc = "returned"

Rows == 1..Len(todoist_items)

\* row r was made from the record of kind kind
IsRowOf(r, kind) == origin[r].kind = kind

\* a row of the area (of the project) with identifier id stands before row r
AreaRowBefore(id, r) ==
    \E q \in 1..(r - 1) : IsRowOf(q, "area") /\ areas[origin[q].idx].id = id

ProjectRowBefore(id, r) ==
    \E q \in 1..(r - 1) : IsRowOf(q, "project") /\ projects[origin[q].idx].id = id

InAreas(id) == \E a \in 1..Len(areas) : areas[a].id = id
InProjects(id) == \E p \in 1..Len(projects) : projects[p].id = id

\* every record has its rows, and each row shows the text of its record
RowsMatchRecords ==
    /\ Len(origin) = Len(todoist_items)
    /\ \A a \in 1..Len(areas) : \E r \in Rows : origin[r] = [kind |-> "area", idx |-> a]
    /\ \A p \in 1..Len(projects) : \E r \in Rows : origin[r] = [kind |-> "project", idx |-> p]
    /\ \A t \in 1..Len(todos) : \E r \in Rows : origin[r] = [kind |-> "todo", idx |-> t]
    /\ \A r \in Rows :
        /\ IsRowOf(r, "area") => todoist_items[r].CONTENT = areas[origin[r].idx].name
        /\ IsRowOf(r, "todo") =>
              /\ todoist_items[r].TYPE = "task"
              /\ todoist_items[r].CONTENT = TodoContent(todos[origin[r].idx])

\* the rows of the checklist of a to-do follow its row at once, in list order
ChecklistFollows ==
    \A r \in Rows : IsRowOf(r, "todo") =>
        LET todo == todos[origin[r].idx]
            n == Len(todo.checklist)
        IN  /\ r + n <= Len(todoist_items)
            /\ \A c \in 1..n :
                  /\ origin[r + c] = [kind |-> "item", idx |-> origin[r].idx]
                  /\ todoist_items[r + c].CONTENT
                        = Mark(todo.checklist[c].status, todo.checklist[c].title)
            /\ r + n < Len(todoist_items) => ~IsRowOf(r + n + 1, "item")

\* C1 as stated: in the returned list the row of its area precedes the row of
\* every project whose area is set, the row of its project or area precedes
\* the row of every to-do whose project or area is set, and the checklist
\* rows of a to-do follow its row at once -- for every input, the referenced
\* container being in the lists passed in or not.
C1_AsStated ==
    Returned =>
        /\ RowsMatchRecords
        /\ ChecklistFollows
        /\ \A r \in Rows :
            /\ IsRowOf(r, "project") /\ Truthy(projects[origin[r].idx].area)
                  => AreaRowBefore(projects[origin[r].idx].area, r)
            /\ IsRowOf(r, "todo") /\ Truthy(todos[origin[r].idx].project)
                  => ProjectRowBefore(todos[origin[r].idx].project, r)
            /\ IsRowOf(r, "todo") /\ Truthy(todos[origin[r].idx].area)
                  => AreaRowBefore(todos[origin[r].idx].area, r)

\* C1 amended: the same ordering, for the containers that are in the lists
\* passed in: the row of the area precedes the row of every project whose area
\* is the id of an area of the areas list, the row of the project (area)
\* precedes the row of every to-do whose project (area) is the id of a project
\* (area) of the lists, and the checklist rows of a to-do follow its row at
\* once, before any other to-do's row.
C1_Ordering ==
    Returned =>
        /\ RowsMatchRecords
        /\ ChecklistFollows
        /\ \A r \in Rows :
            /\ IsRowOf(r, "project") /\ InAreas(projects[origin[r].idx].area)
                  => AreaRowBefore(projects[origin[r].idx].area, r)
            /\ IsRowOf(r, "todo") /\ InProjects(todos[origin[r].idx].project)
                  => ProjectRowBefore(todos[origin[r].idx].project, r)
            /\ IsRowOf(r, "todo") /\ InAreas(todos[origin[r].idx].area)
                  => AreaRowBefore(todos[origin[r].idx].area, r)

\* C1 witness: a returned list with an area, a project of that area, a to-do
\* of that project and its checklist row
C1_Witness ==
    /\ Returned
    /\ \E r \in Rows :
        /\ IsRowOf(r, "todo")
        /\ InProjects(todos[origin[r].idx].project)
        /\ Len(todos[origin[r].idx].checklist) >= 1
    /\ \E r \in Rows : IsRowOf(r, "project") /\ InAreas(projects[origin[r].idx].area)

\* the call of the transformer has ended, by a return or by an exception
Ended == pc \in {"returned", "raised"}

\* the row of the t-th to-do
TodoRowIndex(t) == CHOOSE r \in Rows : origin[r] = [kind |-> "todo", idx |-> t]

\* C2: for a to-do with recurring = "every 2 weeks on Monday" and no due date
\* the transformer completes and the DATE of the to-do's row is exactly
\* "every 2 weeks on Monday".
C2_BiweeklyDate ==
    Ended =>
        \A t \in 1..Len(todos) :
            todos[t].recurring = "every 2 weeks on Monday" /\ ~Truthy(todos[t].dueDate)
            => /\ Returned
               /\ \E r \in Rows : origin[r] = [kind |-> "todo", idx |-> t]
               /\ todoist_items[TodoRowIndex(t)].DATE = "every 2 weeks on Monday"

\* C3: a project row has INDENT 2 exactly when the project's area is set and
\* is the id of an area of the areas list, INDENT 1 otherwise; an area row has
\* INDENT 1.
C3_ProjectIndent ==
    Returned =>
        \A r \in Rows :
            /\ IsRowOf(r, "area") => todoist_items[r].INDENT = 1
            /\ IsRowOf(r, "project") =>
                  todoist_items[r].INDENT =
                      (IF Truthy(projects[origin[r].idx].area)
                          /\ InAreas(projects[origin[r].idx].area) THEN 2 ELSE 1)

\* the YYYY-MM-DD form of the due dates that are dates or date-times
NormalizedDate ==
    [d \in {"2024-03-01", "2024-03-01T10:00:00Z", "2024-03-01T23:30:00-05:00"}
        |-> "2024-03-01"]

\* the normalized phrase of the recurrence descriptors of the to-dos
NormalizedPhrase ==
    [r \in {"every 2 weeks on Monday", "every week", "every 3 days", "foo"} |->
        IF r = "foo" THEN "every day" ELSE r]

\* the DATE the composition rule gives a to-do
ComposedDate(todo) ==
    IF Truthy(todo.dueDate)
    THEN IF Truthy(todo.recurring)
         THEN NormalizedDate[todo.dueDate] \o " " \o NormalizedPhrase[todo.recurring]
         ELSE NormalizedDate[todo.dueDate]
    ELSE IF Truthy(todo.recurring) THEN NormalizedPhrase[todo.recurring]
    ELSE ""

\* C4: the DATE of a to-do row is the due date normalized to YYYY-MM-DD,
\* followed by a space and the normalized recurrence phrase when a recurrence
\* descriptor exists too; the phrase alone when there is no due date; empty
\* when there is neither.
C4_DateComposition ==
    Returned =>
        \A r \in Rows :
            (/\ IsRowOf(r, "todo")
             /\ todos[origin[r].idx].dueDate \in DOMAIN NormalizedDate \cup {None}
             /\ todos[origin[r].idx].recurring \in DOMAIN NormalizedPhrase \cup {None})
            => todoist_items[r].DATE = ComposedDate(todos[origin[r].idx])

\* C5: a failure of the parsing of a due date or of the normalization of a
\* recurrence descriptor is never raised to the caller: the call returns a
\* list that holds a row for every record.
C5_NeverRaised ==
    Ended => Returned /\ RowsMatchRecords

\* the status and the name or title of the record of a project or to-do row
RowStatus(r) ==
    IF IsRowOf(r, "project") THEN projects[origin[r].idx].status
    ELSE todos[origin[r].idx].status

RowTitle(r) ==
    IF IsRowOf(r, "project") THEN projects[origin[r].idx].name
    ELSE todos[origin[r].idx].title

\* C6 as stated: the CONTENT of a project or to-do row begins with the
\* completion mark if the record is completed and never does if it is active,
\* for every name or title.
C6_AsStated ==
    Returned =>
        \A r \in Rows : IsRowOf(r, "project") \/ IsRowOf(r, "todo") =>
            /\ RowStatus(r) = "completed" => StartsWith(todoist_items[r].CONTENT, Marker)
            /\ RowStatus(r) = "active" => ~StartsWith(todoist_items[r].CONTENT, Marker)

\* C6 amended: the CONTENT of a completed project or to-do begins with the
\* completion mark; the CONTENT of an active one begins with it only when the
\* name or title of the record itself does.
C6_Marker ==
    Returned =>
        \A r \in Rows : IsRowOf(r, "project") \/ IsRowOf(r, "todo") =>
            /\ RowStatus(r) = "completed" => StartsWith(todoist_items[r].CONTENT, Marker)
            /\ RowStatus(r) = "active" =>
                  (StartsWith(todoist_items[r].CONTENT, Marker)
                      <=> StartsWith(RowTitle(r), Marker))

\* C6 witness: a returned list with a completed to-do that has notes and an
\* active to-do whose title does not begin with the mark
C6_Witness ==
    /\ Returned
    /\ \E r \in Rows :
        /\ IsRowOf(r, "todo") /\ RowStatus(r) = "completed"
        /\ Truthy(todos[origin[r].idx].notes)
    /\ \E r \in Rows :
        /\ IsRowOf(r, "todo") /\ RowStatus(r) = "active"
        /\ ~StartsWith(RowTitle(r), Marker)

\* the converter has returned or raised
RecDone == pc = "rec_done"

WeekdayNames == <<"Monday", "Tuesday", "Wednesday", "Thursday", "Friday", "Saturday", "Sunday">>

\* the descriptor holds "every week" and the name of a weekday
WeeklyOnDay(d) ==
    /\ Truthy(d)
    /\ Contains(Lower(d), "every week")
    /\ \E w \in 1..7 : Contains(Lower(d), weekdays[w])

\* C7 as stated: for every descriptor that contains "every week" and a
\* weekday name the converter returns "every week on <Weekday>", the weekday
\* being one the descriptor contains, capitalized, whatever else it contains.
C7_AsStated ==
    RecDone /\ WeeklyOnDay(recurrence_str) =>
        \E w \in 1..7 :
            /\ Contains(Lower(recurrence_str), weekdays[w])
            /\ result = Return("every week on " \o WeekdayNames[w])

\* the descriptor holds one of the daily patterns, which are tried first
DailyPattern(d) ==
    \/ Contains(Lower(d), "every day")
    \/ Contains(Lower(d), "every weekday")
    \/ SearchEveryN(Lower(d), "days") # ""

\* C7 amended: for every descriptor that contains "every week" and a weekday
\* name, and none of the daily patterns "every day", "every weekday" and
\* "every <N> days", the converter returns "every week on <Weekday>", the
\* weekday being the first of Monday..Sunday that the descriptor contains.
C7_WeeklyOnDay ==
    RecDone /\ WeeklyOnDay(recurrence_str) /\ ~DailyPattern(recurrence_str) =>
        \E w \in 1..7 :
            /\ Contains(Lower(recurrence_str), weekdays[w])
            /\ \A v \in 1..(w - 1) : ~Contains(Lower(recurrence_str), weekdays[v])
            /\ result = Return("every week on " \o WeekdayNames[w])

\* C7 witness: the converter has answered a descriptor with "every week" and
\* two weekday names, Friday written before Monday
C7_Witness ==
    /\ RecDone
    /\ WeeklyOnDay(recurrence_str) /\ ~DailyPattern(recurrence_str)
    /\ Contains(Lower(recurrence_str), "friday") /\ Contains(Lower(recurrence_str), "monday")
    /\ result = Return("every week on Monday")

\* the descriptor holds none of the unit words
NoUnitWord(d) ==
    \A u \in {"day", "week", "month", "year"} : ~Contains(Lower(d), u)

\* C8 as stated: for every descriptor that contains no unit word, the empty
\* descriptor included, the converter returns "every day".
C8_AsStated ==
    RecDone /\ recurrence_str # None /\ NoUnitWord(recurrence_str) =>
        result = Return("every day")

\* C8 amended: for every non-empty descriptor that contains no unit word the
\* converter returns "every day"; for the empty descriptor it returns "".
C8_DefaultPhrase ==
    RecDone /\ recurrence_str # None /\ NoUnitWord(recurrence_str) =>
        result = Return(IF recurrence_str = "" THEN "" ELSE "every day")

\* C8 witness: the converter has answered a non-empty descriptor of three
\* words, none a unit word
C8_Witness ==
    /\ RecDone
    /\ recurrence_str \notin {None, ""}
    /\ NoUnitWord(recurrence_str)
    /\ Contains(recurrence_str, "every") /\ Contains(recurrence_str, "foo")
    /\ result = Return("every day")

\* C9: a second call of the transformer on the same lists ends as the first
\* did, with an identical row list, and the calls leave the lists as given.
C9_Idempotent ==
    /\ Ended => <<areas, projects, todos>> = given
    /\ run = 2 /\ Ended => result = first

\* C9 witness: the second call has returned a list of at least three rows,
\* with the rows of a project and of a checklist
C9_Witness ==
    /\ run = 2 /\ Returned
    /\ Len(result.value) >= 3
    /\ projects # <<>>
    /\ \E t \in 1..Len(todos) : todos[t].checklist # <<>>

\* main is past the extraction
Extracted ==
    things.running /\ pc \notin {"main", "extract_areas", "extract_projects", "extract_todos"}

\* the categories the flags ask for
Wanted ==
    IF ~args.areas_only /\ ~args.projects_only /\ ~args.todos_only
    THEN {"areas", "projects", "todos"}
    ELSE {c \in {"areas", "projects", "todos"} :
            \/ c = "areas" /\ args.areas_only
            \/ c = "projects" /\ args.projects_only
            \/ c = "todos" /\ args.todos_only}

\* C10: with none of the "only" flags all three categories are extracted; with
\* at least one, a category is extracted exactly when its flag is given; the
\* list of a category that is not extracted is empty and gives no row.
C10_OnlyFlags ==
    Extracted =>
        /\ called = Wanted
        /\ "areas" \notin Wanted =>
              areas = <<>> /\ \A r \in 1..Len(origin) : ~IsRowOf(r, "area")
        /\ "projects" \notin Wanted =>
              projects = <<>> /\ \A r \in 1..Len(origin) : ~IsRowOf(r, "project")
        /\ "todos" \notin Wanted =>
              todos = <<>> /\ \A r \in 1..Len(origin) : IsRowOf(r, "area") \/ IsRowOf(r, "project")

\* C10 witness: a run with --areas-only and --todos-only on a source that
\* holds a project has written the rows of the area and of a to-do
C10_Witness ==
    /\ pc = "exit" /\ exit_code = 0
    /\ args.areas_only /\ args.todos_only /\ ~args.projects_only
    /\ things.projects # <<>>
    /\ called = {"areas", "todos"}
    /\ Len(csv) >= 2
    /\ \E r \in 1..Len(origin) : IsRowOf(r, "todo")

\* the run of main has ended
Exited == pc = "exit"

\* C11: a run ends with exit code 1 if the source application is not running,
\* and then nothing is extracted, transformed or written; every other run
\* goes once through extraction, transformation and writing and ends with
\* exit code 0, whatever failures or records it meets.
C11_ExitCode ==
    Exited =>
        IF things.running
        THEN exit_code = 0 /\ called = Wanted /\ csv = todoist_items
        ELSE exit_code = 1 /\ csv = None /\ called = {} /\ todoist_items = <<>>

\* the project's four attribute queries all fail
AllAttributesFail(p) ==
    \A q \in {"name", "notes", "status", "area"} : <<p.id, q>> \in things.faults

\* get_projects has returned and its list is as it returned it
ProjectsFetched == pc \in {"extract_todos", "filter"} /\ "projects" \in called

\* C12: in get_projects a project identifier whose attribute queries (name,
\* notes, status, owning area) all fail gives no record in the returned list.
C12_FailedProjectDropped ==
    ProjectsFetched =>
        \A p \in 1..Len(things.projects) :
            AllAttributesFail(things.projects[p])
            => \A q \in 1..Len(projects) : projects[q].id # things.projects[p].id

\* get_to_dos has returned and its list is as it returned it
TodosFetched == pc = "filter" /\ "todos" \in called

\* the basic query of to-do t answers with its three fields
Answered(t) ==
    <<t.id, "basic">> \notin things.faults /\ <<t.id, "basic_malformed">> \notin things.faults

\* the value of a field whose query q fails, answers out of form, or answers
Degraded(t, q, failed, malformed, value) ==
    IF <<t.id, q>> \in things.faults THEN failed
    ELSE IF <<t.id, q \o "_malformed">> \in things.faults THEN malformed
    ELSE value

RowsWithoutParent(p, t) ==
    /\ \A r \in Rows :
          ~(IsRowOf(r, "project") /\ projects[origin[r].idx].id = p.id)
    /\ \E r \in Rows :
          /\ IsRowOf(r, "todo") /\ todos[origin[r].idx].id = t.id
          /\ todoist_items[r].INDENT = 2

\* C14: with --skip-completed, a completed project and an active to-do that it
\* owns, the run ends without error, its output has no row of the project and
\* has the row of the to-do, with INDENT 2.
C14_SkipCompleted ==
    (Exited /\ things.running /\ things.faults = {} /\ args.skip_completed
        /\ include_projects /\ include_todos) =>
        \A p \in 1..Len(things.projects) : \A t \in 1..Len(things.todos) :
            /\ things.projects[p].status = "completed"
            /\ things.todos[t].project = things.projects[p].id
            /\ things.todos[t].status # "completed"
            => /\ exit_code = 0
               /\ csv = todoist_items
               /\ RowsWithoutParent(things.projects[p], things.todos[t])

\* the lower-cased tag holds one of the three words
Escalates(tag) ==
    \E w \in {"high", "urgent", "priority"} :
        \E i \in 1..Len(tag) : OccursAt(Lower(tag), w, i)

\* C15: every output row has PRIORITY 1 or 4; the row of a to-do has 4 exactly
\* when one of its tags, lower-cased, holds "high", "urgent" or "priority";
\* the rows of areas, projects and checklist items have 1.
C15_Priority ==
    Returned =>
        \A r \in Rows :
            /\ todoist_items[r].PRIORITY \in {1, 4}
            /\ IsRowOf(r, "todo") =>
                  (todoist_items[r].PRIORITY = 4
                      <=> \E g \in 1..Len(todos[origin[r].idx].tags) :
                              Escalates(todos[origin[r].idx].tags[g]))
            /\ ~IsRowOf(r, "todo") => todoist_items[r].PRIORITY = 1

\* an output with a to-do row of priority 4 whose first tag does not escalate
\* and whose second does by an upper-case word, a tagged to-do row of
\* priority 1, and rows of an area, a project and a checklist item
C15_Witness ==
    /\ Returned
    /\ \E r \in Rows :
          /\ IsRowOf(r, "todo") /\ todoist_items[r].PRIORITY = 4
          /\ todos[origin[r].idx].tags = <<"home errands", "URGENT!">>
    /\ \E r \in Rows :
          /\ IsRowOf(r, "todo") /\ todoist_items[r].PRIORITY = 1
          /\ todos[origin[r].idx].tags # <<>>
    /\ \A kind \in {"area", "project", "item"} : \E r \in Rows : IsRowOf(r, kind)

====
